---- MODULE Spec2Model ----
(***************************************************************************)
(* godockerize: doBuild, the "build" command.  Two builds of the command   *)
(* are in the repository and both are modelled, selected by `impl`:        *)
(*   "godockerize.go"  writes Dockerfile and build.sh next to the entry    *)
(*                     package; the generated build.sh compiles and runs   *)
(*                     docker build when it is executed;                   *)
(*   "part_000"        writes the Dockerfile to a temporary directory,     *)
(*                     compiles every package and runs docker build.       *)
(* The directive scan (the loop over the arguments) is the same code in    *)
(* both.                                                                   *)
(*                                                                         *)
(* Text.  A comment's text is a sequence of lexemes: the string " " is one *)
(* space character, every other element is a maximal run of non-space      *)
(* characters, except that the sentinel "//docker:" is a lexeme of its own *)
(* when the text starts with it.  So "//docker:env  A=1" is                *)
(* <<"//docker:", "env", " ", " ", "A=1">>.  The empty string is <<>>.     *)
(***************************************************************************)
EXTENDS Integers, Sequences, FiniteSets, TLC

\* ------------------------------------------------------------------ bounds
\* arguments of one invocation, files of one unit
MaxUnits == 2
MaxFiles == 2
\* comment lines of one invocation: under ScanSpec, which follows doBuild until the
\* descriptor is printed, and under Spec, which follows it to its end and on
\* through a run of the generated build.sh
MaxLines == 2
MaxLinesBuild == 1

\* ------------------------------------------------------------ input domain
Impls == {"godockerize.go", "part_000"}

\* values of the --env flag (c.StringSlice("env"))
EnvFlags == {<<>>, <<"A=1">>}

\* values of the --base flag; the first is the flag's default
Bases == {"alpine:3.8", "ubuntu:18.04"}

\* the import path build.Import resolves the i-th argument to, as path segments
UnitNames == <<"frontend", "gitserver", "searcher", "indexer">>
ImportPath(n) == <<"github.com", "sourcegraph", "sourcegraph", "cmd", UnitNames[((n - 1) % 4) + 1]>>

S == "//docker:"
SP == " "

\* the comment lines a source file may hold
LineSet ==
    { <<S, "env", SP, "B=2", SP, "A=1">>,
      <<S, "expose", SP, "8080", SP, "80", SP, "8080">>,
      <<S, "install", SP, "git@edge", SP, "curl">>,
      <<S, "repository", SP, "v3.6", SP, "edge">>,
      <<S, "run", SP, "echo", SP, SP, "hi">>,
      <<S, "run", SP, "make">>,
      <<S, "cmd", SP, "serve">>,
      <<S, "cmd", SP>>,
      <<S, "user", SP, "app", SP, "/data">>,
      <<S, "bogus", SP, "foo">>,
      <<S, "env">>,
      <<S, "user">>,
      <<"//", SP, "docker:env", SP, "A=1">> }

\* every token that can reach a sorted list, in ascending byte order (sort.Strings)
ByteOrder ==
    <<"80", "8080", "A=1", "B=2", "bind-tools", "ca-certificates", "curl",
      "git@edge", "mailcap", "tini">>

\* ---------------------------------------------------------- string helpers
\* strings.HasPrefix(c.Text, "//docker:")
HasPrefix(text) == Len(text) >= 1 /\ text[1] = S

\* c.Text[len("//docker:"):]
AfterSentinel(text) == Tail(text)

\* strings.SplitN(s, " ", 2): one part when s holds no space, else the text before
\* the first space and everything after it
SplitN(s) ==
    IF \E k \in 1..Len(s) : s[k] = SP
    THEN LET k == CHOOSE k \in 1..Len(s) : s[k] = SP /\ \A j \in 1..(k - 1) : s[j] # SP
         IN <<SubSeq(s, 1, k - 1), SubSeq(s, k + 1, Len(s))>>
    ELSE <<s>>

\* strings.Fields: the maximal runs of non-space characters
Fields(s) == SelectSeq(s, LAMBDA x : x # SP)

\* strings.HasSuffix(pkg, "@edge")
HasSuffixEdge(pkg) == pkg \in {"git@edge"}

\* strings.HasPrefix(base, "alpine")
HasPrefixAlpine(base) == base \in {"alpine:3.8"}

\* path.Base of an import path
Base(path) == path[Len(path)]

Rank(tok) == CHOOSE k \in 1..Len(ByteOrder) : ByteOrder[k] = tok
Less(a, b) == Rank(a) < Rank(b)

Range(s) == {s[k] : k \in 1..Len(s)}

RECURSIVE SortSet(_)
SortSet(set) ==
    IF set = {} THEN <<>>
    ELSE LET m == CHOOSE x \in set : \A y \in set : x = y \/ Less(x, y)
         IN <<m>> \o SortSet(set \ {m})

\* sortedStringSet without the sort and the set: the slice as it was accumulated
unsortedStrings(in) == in

\* sortedStringSet: the distinct strings of `in`, sorted
sortedStringSet(in) == SortSet(Range(in))

\* ------------------------------------------------------------------- state
VARIABLES
    impl,        \* which build of the command runs
    dryRun,      \* the --dry-run flag
    envFlag,     \* the --env flag
    pc,          \* position in doBuild: "start", "loop" (the scan), "write", "compile",
                 \* "buildsh", "done" (returned or crashed)
    i,           \* number of arguments imported so far; the current unit is the i-th
    file,        \* number of files of the current unit parsed so far; 0 outside the loop
    packages, env, expose, install, repos, run, userDirs, user, cmd,
    log,         \* the comment lines scanned so far, in scan order: [unit, text]
    result,      \* how doBuild ended: [err, line]; err is "running", "nil", "panic" or the
                 \* returned error, line the comment text an error message quotes
    stdout,      \* what doBuild printed, in order
    dockerfile,  \* the dockerfile buffer: a sequence of instructions
    dfFile,      \* the Dockerfile on disk: "none", "written", "failed"
    buildsh,     \* the build.sh buffer: a sequence of commands
    shFile,      \* build.sh on disk: "none", "written", "failed"
    compiled,    \* the go build invocations so far: [pkg, ok]
    docker,      \* the docker build invocation: "none", "ok", "failed"
    sh           \* a run of the written build.sh: [pc, errexit, exit]

cfgVars == <<env, expose, install, repos, run, userDirs, user, cmd>>
outVars == <<dockerfile, dfFile, buildsh, shFile, compiled, docker, sh>>
vars == <<impl, dryRun, envFlag, pc, i, file, packages, cfgVars, log, result, stdout, outVars>>

Cfg == [env |-> env, expose |-> expose, install |-> install, repos |-> repos,
        run |-> run, userDirs |-> userDirs, user |-> user, cmd |-> cmd]

ShIdle == [pc |-> 0, errexit |-> FALSE, exit |-> "none"]

R(err) == [err |-> err, line |-> <<>>]

Init ==
    /\ impl \in Impls
    /\ dryRun \in BOOLEAN
    /\ pc = "start"
    /\ i = 0
    /\ file = 0
    /\ packages = <<>>
    /\ envFlag \in EnvFlags
    /\ env = envFlag
    /\ expose = <<>>
    /\ install = <<"ca-certificates", "mailcap", "tini">>
    /\ repos = <<>>
    /\ run = <<>>
    /\ userDirs = <<>>
    /\ user = ""
    /\ cmd = <<>>
    /\ log = <<>>
    /\ result = R("running")
    /\ stdout = <<>>
    /\ dockerfile = <<>>
    /\ dfFile = "none"
    /\ buildsh = <<>>
    /\ shFile = "none"
    /\ compiled = <<>>
    /\ docker = "none"
    /\ sh = ShIdle

\* --------------------------------------------------------- directive scan
\* The switch on parts[0] for one "//docker:" comment.  c is the accumulated
\* configuration; the result is the new configuration and what the statement did:
\* "ok", "ignored" (the diagnostic was printed), "panic" (index out of range),
\* or the returned error.
Out(c, st) == [cfg |-> c, status |-> st]

Switch(parts, isFirstPackage, c) ==
    LET has1 == Len(parts) > 1
    IN  CASE parts[1] = <<"env">> ->
               IF isFirstPackage
               THEN IF has1 THEN Out([c EXCEPT !.env = @ \o Fields(parts[2])], "ok")
                    ELSE Out(c, "panic")
               ELSE Out(c, "ignored")
          [] parts[1] = <<"expose">> ->
               IF isFirstPackage
               THEN IF has1 THEN Out([c EXCEPT !.expose = @ \o Fields(parts[2])], "ok")
                    ELSE Out(c, "panic")
               ELSE Out(c, "ignored")
          [] parts[1] = <<"install">> ->
               IF has1 THEN Out([c EXCEPT !.install = @ \o Fields(parts[2])], "ok")
               ELSE Out(c, "panic")
          [] parts[1] = <<"repository">> ->
               IF has1 THEN Out([c EXCEPT !.repos = @ \o Fields(parts[2])], "ok")
               ELSE Out(c, "panic")
          [] parts[1] = <<"run">> ->
               IF has1 THEN Out([c EXCEPT !.run = Append(@, parts[2])], "ok")
               ELSE Out(c, "panic")
          [] parts[1] = <<"cmd">> ->
               IF isFirstPackage
               THEN IF c.cmd # <<>> THEN Out(c, "cmd set twice")
                    ELSE IF has1 THEN Out([c EXCEPT !.cmd = parts[2]], "ok")
                    ELSE Out(c, "panic")
               ELSE Out(c, "ignored")
          [] parts[1] = <<"user">> ->
               IF ~has1 THEN Out(c, "panic")
               ELSE LET userArgs == Fields(parts[2])
                    IN  IF isFirstPackage
                        THEN IF c.user # "" THEN Out(c, "user set twice")
                             ELSE IF userArgs = <<>> THEN Out(c, "panic")
                             ELSE Out([c EXCEPT !.user = userArgs[1],
                                                !.userDirs = IF Len(userArgs) > 1
                                                             THEN Tail(userArgs) ELSE @], "ok")
                        ELSE Out(c, "ignored")
          [] OTHER -> Out(c, "invalid docker comment")

\* Dispatch with the isFirstPackage test lost: every unit is treated as the entry unit
DispatchEveryUnit(text, isFirstPackage, c) == Switch(SplitN(AfterSentinel(text)), TRUE, c)

\* line 120 and the switch
Dispatch(text, isFirstPackage, c) == Switch(SplitN(AfterSentinel(text)), isFirstPackage, c)

\* what doBuild returns (or how it ends) for a Dispatch status that ends it
Ending(st, text) ==
    IF st = "invalid docker comment" THEN [err |-> st, line |-> text] ELSE R(st)

SetCfg(c) ==
    /\ env' = c.env
    /\ expose' = c.expose
    /\ install' = c.install
    /\ repos' = c.repos
    /\ run' = c.run
    /\ userDirs' = c.userDirs
    /\ user' = c.user
    /\ cmd' = c.cmd

\* lines 73-92: Getwd, the argument count, (go env GOCACHE,) TempDir
Start ==
    /\ pc = "start"
    /\ \E outcome \in {"ok", "no args", "startup error"} :
         IF outcome = "ok"
         THEN pc' = "loop" /\ result' = result
         ELSE pc' = "done" /\ result' = R(outcome)
    /\ UNCHANGED <<impl, dryRun, envFlag, i, file, packages, cfgVars, log, stdout, outVars>>

\* lines 99-110: the next argument is imported
Import ==
    /\ pc = "loop"
    /\ i < MaxUnits
    /\ \E ok \in BOOLEAN :
         IF ok
         THEN /\ i' = i + 1
              /\ file' = 0
              /\ packages' = Append(packages, ImportPath(i + 1))
              /\ UNCHANGED <<pc, result>>
         ELSE /\ pc' = "done"
              /\ result' = R("import error")
              /\ file' = 0
              /\ UNCHANGED <<i, packages>>
    /\ UNCHANGED <<impl, dryRun, envFlag, cfgVars, log, stdout, outVars>>

\* lines 111-115: the next file of the current unit is parsed
ParseFile ==
    /\ pc = "loop"
    /\ i >= 1
    /\ file < MaxFiles
    /\ \E ok \in BOOLEAN :
         IF ok
         THEN file' = file + 1 /\ UNCHANGED <<pc, result>>
         ELSE pc' = "done" /\ result' = R("parse error") /\ file' = 0
    /\ UNCHANGED <<impl, dryRun, envFlag, i, packages, cfgVars, log, stdout, outVars>>

\* lines 117-166: the next comment of the current file
ScanComment(maxLines) ==
    /\ pc = "loop"
    /\ file >= 1
    /\ Len(log) < maxLines
    /\ \E text \in LineSet :
         /\ log' = Append(log, [unit |-> i, text |-> text])
         /\ IF ~HasPrefix(text)
            THEN UNCHANGED <<pc, result, stdout, cfgVars, file>>
            ELSE LET d == Dispatch(text, i = 1, Cfg)
                 IN  /\ SetCfg(d.cfg)
                     /\ stdout' = IF d.status = "ignored"
                                  THEN Append(stdout, [out |-> "ignoring", unit |-> i, text |-> text])
                                  ELSE stdout
                     /\ IF d.status \in {"ok", "ignored"}
                        THEN UNCHANGED <<pc, result, file>>
                        ELSE pc' = "done" /\ result' = Ending(d.status, text) /\ file' = 0
    /\ UNCHANGED <<impl, dryRun, envFlag, i, packages, outVars>>

Comment == ScanComment(MaxLines)

CommentBuild == ScanComment(MaxLinesBuild)

\* ------------------------------------------------------------- descriptor
\* One instruction of the Dockerfile.  op is the Dockerfile keyword, role says which
\* statement of doBuild wrote it, args is what it lists.  The comment lines of the
\* generated file ("# This Dockerfile was generated ...", "# hadolint ignore") are
\* not instructions and are left out.
Instr(op, role, args) == [op |-> op, role |-> role, args |-> args]

\* the two echo lines that register one channel: .../alpine/<rel>/main and /community
EchoPair(tag, rel) ==
    <<[tag |-> tag, rel |-> rel, comp |-> "main"], [tag |-> tag, rel |-> rel, comp |-> "community"]>>

EdgePair == EchoPair("@edge", "edge")

\* the echo lines of every entry of repos, in order
RepoEchoes(rs) ==
    [k \in 1..(2 * Len(rs)) |->
        [tag |-> "", rel |-> rs[(k + 1) \div 2], comp |-> IF k % 2 = 1 THEN "main" ELSE "community"]]

\* the loop over install that looks for an "@edge" package
NeedsEdge(inst) == \E k \in 1..Len(inst) : HasSuffixEdge(inst[k])

\* repository registration: godockerize.go joins every echo into one RUN,
\* part_000 writes one RUN for the edge pair and one per entry of repos
RepoInstrs(im, inst, rs) ==
    IF im = "godockerize.go"
    THEN LET repoUrls == (IF NeedsEdge(inst) THEN EdgePair ELSE <<>>) \o RepoEchoes(rs)
         IN  IF Len(repoUrls) > 0 THEN <<Instr("RUN", "repository", repoUrls)>> ELSE <<>>
    ELSE (IF NeedsEdge(inst) THEN <<Instr("RUN", "repository", EdgePair)>> ELSE <<>>)
         \o [k \in 1..Len(rs) |-> Instr("RUN", "repository", EchoPair("", rs[k]))]

\* install after the bind-tools patch for alpine bases
Augmented(base, inst) == IF HasPrefixAlpine(base) THEN Append(inst, "bind-tools") ELSE inst

InstallInstr(inst) ==
    IF Len(inst) # 0 THEN <<Instr("RUN", "install", sortedStringSet(inst))>> ELSE <<>>

\* addgroup/adduser, then one mkdir/chown clause per entry of userDirs, joined by &&
UserInstr(u, dirs) ==
    IF u # ""
    THEN <<Instr("RUN", "adduser",
                 <<[do |-> "adduser", arg |-> u]>>
                 \o [k \in 1..Len(dirs) |-> [do |-> "mkdir-chown", arg |-> dirs[k]]])>>
    ELSE <<>>

\* RunInstrs with the entries prepended instead of appended
RunInstrsNewestFirst(rn) == [k \in 1..Len(rn) |-> [op |-> "RUN", role |-> "run", args |-> rn[Len(rn) + 1 - k]]]

RunInstrs(rn) == [k \in 1..Len(rn) |-> Instr("RUN", "run", rn[k])]

EnvInstr(e) == IF Len(e) # 0 THEN <<Instr("ENV", "env", sortedStringSet(e))>> ELSE <<>>

ExposeInstr(e) == IF Len(e) # 0 THEN <<Instr("EXPOSE", "expose", sortedStringSet(e))>> ELSE <<>>

UserSwitch(u) == IF u # "" THEN <<Instr("USER", "user", <<u>>)>> ELSE <<>>

CmdInstr(c) == IF c # <<>> THEN <<Instr("CMD", "cmd", c)>> ELSE <<>>

Entrypoint(pkgs) == <<Instr("ENTRYPOINT", "entrypoint", <<Base(pkgs[1])>>)>>

CopyInstrs(im, pkgs) ==
    [k \in 1..Len(pkgs) |->
        Instr(IF im = "godockerize.go" THEN "COPY" ELSE "ADD", "copy", <<Base(pkgs[k])>>)]

\* Dockerfile with the EXPOSE statement moved in front of the ENV statement
DockerfileExposeBeforeEnv(im, base, c, pkgs) ==
    <<Instr("FROM", "from", <<base>>)>>
    \o RepoInstrs(im, c.install, c.repos)
    \o InstallInstr(Augmented(base, c.install))
    \o UserInstr(c.user, c.userDirs)
    \o RunInstrs(c.run)
    \o ExposeInstr(c.expose)
    \o EnvInstr(c.env)
    \o UserSwitch(c.user)
    \o CmdInstr(c.cmd)
    \o Entrypoint(pkgs)
    \o CopyInstrs(im, pkgs)

\* the dockerfile buffer as doBuild fills it
Dockerfile(im, base, c, pkgs) ==
    <<Instr("FROM", "from", <<base>>)>>
    \o RepoInstrs(im, c.install, c.repos)
    \o InstallInstr(Augmented(base, c.install))
    \o UserInstr(c.user, c.userDirs)
    \o RunInstrs(c.run)
    \o EnvInstr(c.env)
    \o ExposeInstr(c.expose)
    \o UserSwitch(c.user)
    \o CmdInstr(c.cmd)
    \o Entrypoint(pkgs)
    \o CopyInstrs(im, pkgs)

Printed(what) == [out |-> what, unit |-> 0, text |-> <<>>]

\* the end of the loop over the arguments and the statements that fill and print
\* the dockerfile buffer; part_000 returns here when --dry-run is set
Synthesize ==
    /\ pc = "loop"
    /\ i >= 1
    /\ \E base \in Bases :
         /\ dockerfile' = Dockerfile(impl, base, Cfg, packages)
         /\ install' = Augmented(base, install)
    /\ IF impl = "part_000"
       THEN /\ stdout' = stdout \o <<Printed("godockerize: Generated Dockerfile:"), Printed("Dockerfile")>>
            /\ IF dryRun
               THEN pc' = "done" /\ result' = R("nil")
               ELSE pc' = "write" /\ result' = result
       ELSE /\ stdout' = Append(stdout, Printed("Dockerfile"))
            /\ pc' = "write"
            /\ result' = result
    /\ file' = 0
    /\ UNCHANGED <<impl, dryRun, envFlag, i, packages, env, expose, repos, run, userDirs, user, cmd,
                   log, dfFile, buildsh, shFile, compiled, docker, sh>>

\* ioutil.WriteFile of the Dockerfile.  godockerize.go returns its error; part_000
\* drops it and tests the err of ioutil.TempDir, which is nil here
WriteDockerfile ==
    /\ pc = "write"
    /\ \E ok \in BOOLEAN :
         /\ dfFile' = IF ok THEN "written" ELSE "failed"
         /\ IF impl = "godockerize.go"
            THEN IF ok THEN pc' = "buildsh" /\ result' = result
                 ELSE pc' = "done" /\ result' = R("write error")
            ELSE pc' = "compile" /\ result' = result
    /\ UNCHANGED <<impl, dryRun, envFlag, i, file, packages, cfgVars, log, stdout,
                   dockerfile, buildsh, shFile, compiled, docker, sh>>

\* ------------------------------------------------------- part_000: build
\* one turn of the loop that runs "go build" for each entry of packages
Compile ==
    /\ impl = "part_000"
    /\ pc = "compile"
    /\ Len(compiled) < Len(packages)
    /\ LET importPath == packages[Len(compiled) + 1]
       IN  /\ stdout' = Append(stdout, [out |-> "godockerize: Building Go binary", unit |-> 0,
                                        text |-> <<Base(importPath)>>])
           /\ \E ok \in BOOLEAN :
                /\ compiled' = Append(compiled, [pkg |-> importPath, ok |-> ok])
                /\ IF ok THEN UNCHANGED <<pc, result>>
                   ELSE pc' = "done" /\ result' = R("compile error")
    /\ UNCHANGED <<impl, dryRun, envFlag, i, file, packages, cfgVars, log,
                   dockerfile, dfFile, buildsh, shFile, docker, sh>>

\* docker build in the temporary directory; its error is what doBuild returns
DockerBuild ==
    /\ impl = "part_000"
    /\ pc = "compile"
    /\ Len(compiled) = Len(packages)
    /\ stdout' = Append(stdout, Printed("godockerize: Building Docker image..."))
    /\ \E ok \in BOOLEAN :
         /\ docker' = IF ok THEN "ok" ELSE "failed"
         /\ result' = R(IF ok THEN "nil" ELSE "docker error")
    /\ pc' = "done"
    /\ UNCHANGED <<impl, dryRun, envFlag, i, file, packages, cfgVars, log,
                   dockerfile, dfFile, buildsh, shFile, compiled, sh>>

\* -------------------------------------------------- godockerize.go: build.sh
\* strings.TrimPrefix(packages[0], "github.com/sourcegraph/sourcegraph/")
RelPackage(path) ==
    IF Len(path) >= 3 /\ SubSeq(path, 1, 3) = <<"github.com", "sourcegraph", "sourcegraph">>
    THEN SubSeq(path, 4, Len(path)) ELSE path

\* BuildSh without "set -ex": bash goes on after a failing command
BuildShNoErrexit(pkgs) ==
    [k \in 1..Len(pkgs) |-> [cmd |-> "go build", arg |-> pkgs[k]]]
    \o <<[cmd |-> "docker build", arg |-> RelPackage(pkgs[1])]>>

\* The commands of the generated build.sh that can fail or change how the shell
\* treats a failure: "set -ex", one "go build" per package (the for loop), and
\* "docker build -f <relPackage>/Dockerfile".
BuildSh(pkgs) ==
    <<[cmd |-> "set -ex", arg |-> <<>>]>>
    \o [k \in 1..Len(pkgs) |-> [cmd |-> "go build", arg |-> pkgs[k]]]
    \o <<[cmd |-> "docker build", arg |-> RelPackage(pkgs[1])]>>

\* the build.sh buffer is filled, printed and written; doBuild returns
WriteBuildSh ==
    /\ impl = "godockerize.go"
    /\ pc = "buildsh"
    /\ buildsh' = BuildSh(packages)
    /\ stdout' = Append(stdout, Printed("build.sh"))
    /\ \E ok \in BOOLEAN :
         /\ shFile' = IF ok THEN "written" ELSE "failed"
         /\ result' = R(IF ok THEN "nil" ELSE "write error")
    /\ pc' = "done"
    /\ UNCHANGED <<impl, dryRun, envFlag, i, file, packages, cfgVars, log,
                   dockerfile, dfFile, compiled, docker, sh>>

\* A run of the written build.sh by bash: sh.pc commands have been executed.
ShRunning == impl = "godockerize.go" /\ shFile = "written" /\ sh.exit = "none" /\ sh.pc < Len(buildsh)
ShCommand == buildsh[sh.pc + 1]

ShSetEx ==
    /\ ShRunning
    /\ ShCommand.cmd = "set -ex"
    /\ sh' = [sh EXCEPT !.pc = @ + 1, !.errexit = TRUE]
    /\ UNCHANGED <<impl, dryRun, envFlag, pc, i, file, packages, cfgVars, log, result, stdout,
                   dockerfile, dfFile, buildsh, shFile, compiled, docker>>

\* a failing command ends the script at once when errexit is on
ShGoBuild ==
    /\ ShRunning
    /\ ShCommand.cmd = "go build"
    /\ \E ok \in BOOLEAN :
         /\ compiled' = Append(compiled, [pkg |-> ShCommand.arg, ok |-> ok])
         /\ sh' = [sh EXCEPT !.pc = @ + 1,
                             !.exit = IF ~ok /\ sh.errexit THEN "1" ELSE @]
    /\ UNCHANGED <<impl, dryRun, envFlag, pc, i, file, packages, cfgVars, log, result, stdout,
                   dockerfile, dfFile, buildsh, shFile, docker>>

\* the last command: its status is the script's
ShDockerBuild ==
    /\ ShRunning
    /\ ShCommand.cmd = "docker build"
    /\ \E ok \in BOOLEAN :
         /\ docker' = IF ok THEN "ok" ELSE "failed"
         /\ sh' = [sh EXCEPT !.pc = @ + 1, !.exit = IF ok THEN "0" ELSE "1"]
    /\ UNCHANGED <<impl, dryRun, envFlag, pc, i, file, packages, cfgVars, log, result, stdout,
                   dockerfile, dfFile, buildsh, shFile, compiled>>

\* doBuild to its end, and a run of the build.sh it wrote
Next ==
    \/ Start \/ Import \/ ParseFile \/ CommentBuild
    \/ Synthesize \/ WriteDockerfile
    \/ Compile \/ DockerBuild
    \/ WriteBuildSh \/ ShSetEx \/ ShGoBuild \/ ShDockerBuild

Spec == Init /\ [][Next]_vars

\* doBuild from its entry until the descriptor is printed (or the scan ends the
\* run); the later steps change neither the configuration nor the descriptor
NextScan == Start \/ Import \/ ParseFile \/ Comment \/ Synthesize

ScanSpec == Init /\ [][NextScan]_vars
\* ------------------------------------------------- what the claims speak of
Kinds == {"env", "expose", "install", "repository", "run", "cmd", "user"}
Restricted == {"env", "expose", "cmd", "user"}

\* position of the first space of a text, 0 when it has none
FirstSpace(text) ==
    IF \E k \in 1..Len(text) : text[k] = SP
    THEN CHOOSE k \in 1..Len(text) : text[k] = SP /\ \A j \in 1..(k - 1) : text[j] # SP
    ELSE 0

\* a line that starts with the sentinel
IsDirective(text) == Len(text) >= 1 /\ text[1] = S

\* the kind a directive line names: what stands between the sentinel and the first
\* space (or the end of the line); "" when nothing does
KindOf(text) ==
    IF Len(text) >= 2 /\ text[2] # SP THEN text[2] ELSE ""

\* the line has a kind and a payload to separate: a space follows the kind
HasPayload(text) == FirstSpace(text) # 0

\* the payload: everything after the first space
PayloadOf(text) == SubSeq(text, FirstSpace(text) + 1, Len(text))

Tokens(text) == SelectSeq(PayloadOf(text), LAMBDA x : x # SP)

Malformed(text) == IsDirective(text) /\ (KindOf(text) \notin Kinds \/ ~HasPayload(text))

Last(s) == s[Len(s)]

\* the tokens (or, raw, the payloads) the scanned lines of one kind declare, in scan
\* order; entryOnly keeps the entry unit's lines only
RECURSIVE Declared(_, _, _, _)
Declared(lg, kind, entryOnly, raw) ==
    IF lg = <<>> THEN <<>>
    ELSE LET e == Last(lg)
             rest == Declared(SubSeq(lg, 1, Len(lg) - 1), kind, entryOnly, raw)
         IN  IF IsDirective(e.text) /\ KindOf(e.text) = kind /\ HasPayload(e.text)
                /\ (entryOnly => e.unit = 1)
             THEN rest \o (IF raw THEN <<PayloadOf(e.text)>> ELSE Tokens(e.text))
             ELSE rest

\* the descriptor exists: the dockerfile buffer has been filled (and printed)
Emitted == dockerfile # <<>>

OfRole(role) == SelectSeq(dockerfile, LAMBDA x : x.role = role)

\* every echo line of the repository-registration instructions, in output order
RECURSIVE Echoes(_)
Echoes(instrs) == IF instrs = <<>> THEN <<>> ELSE Head(instrs).args \o Echoes(Tail(instrs))

StrictlyAscending(s) == \A k \in 1..(Len(s) - 1) : Less(s[k], s[k + 1])

RoleRank(role) ==
    CASE role = "from" -> 1
      [] role = "repository" -> 2
      [] role = "install" -> 3
      [] role = "adduser" -> 4
      [] role = "run" -> 5
      [] role = "env" -> 6
      [] role = "expose" -> 7
      [] role = "user" -> 8
      [] role = "cmd" -> 9
      [] role = "entrypoint" -> 10
      [] role = "copy" -> 11

Present(role) == Len(OfRole(role)) = 1
Absent(role) == Len(OfRole(role)) = 0

\* ------------------------------------------------------------------ claims

\* C1: a scan step that reads a directive of kind env, expose, cmd or user (kind and
\* payload both there) in a unit after the first leaves env, expose, cmd, user and
\* userDirs as they were and does not end the run: doBuild stays in the loop.
C1_NonEntryRestrictedDropped ==
    [][ ( /\ Len(log') = Len(log) + 1
          /\ Last(log').unit > 1
          /\ IsDirective(Last(log').text)
          /\ KindOf(Last(log').text) \in Restricted
          /\ HasPayload(Last(log').text) )
        => ( /\ UNCHANGED <<env, expose, cmd, user, userDirs>>
             /\ pc' = "loop"
             /\ result' = R("running") ) ]_vars

\* a run that read a restricted directive in a later unit, read another line after
\* it, and ended with the descriptor printed
C1_Witness ==
    /\ Emitted
    /\ \E k \in 1..(Len(log) - 1) :
         /\ log[k].unit > 1
         /\ IsDirective(log[k].text)
         /\ KindOf(log[k].text) \in Restricted
         /\ HasPayload(log[k].text)

\* C2: once two cmd lines, or two user lines, of the entry unit have been read,
\* doBuild has returned "cmd set twice" / "user set twice" and no descriptor exists.
C2_SecondDeclarationConflicts ==
    \A kind \in {"cmd", "user"} :
      Cardinality({k \in 1..Len(log) :
                     log[k].unit = 1 /\ IsDirective(log[k].text) /\ KindOf(log[k].text) = kind}) >= 2
      => /\ pc = "done"
         /\ result = R(IF kind = "cmd" THEN "cmd set twice" ELSE "user set twice")
         /\ ~Emitted

\* C3: a scanned "//docker:" line with an unknown kind, or with no kind/payload to
\* separate, is the last line read: doBuild returned the invalid-comment error
\* quoting it, and no descriptor exists.
C3_MalformedLineAborts ==
    \A k \in 1..Len(log) :
      Malformed(log[k].text)
      => /\ k = Len(log)
         /\ pc = "done"
         /\ result = [err |-> "invalid docker comment", line |-> log[k].text]
         /\ ~Emitted

\* C4: the instructions of an emitted descriptor follow the fixed order FROM,
\* repository registration, install, user creation, RUNs, ENV, EXPOSE, USER, CMD,
\* ENTRYPOINT, artifact copies, each present exactly when the claim says.
C4_InstructionOrder ==
    Emitted =>
      /\ \A k \in 1..(Len(dockerfile) - 1) :
           RoleRank(dockerfile[k].role) <= RoleRank(dockerfile[k + 1].role)
      /\ Present("from") /\ dockerfile[1].op = "FROM"
      /\ (Len(OfRole("repository")) > 0) <=> (NeedsEdge(install) \/ repos # <<>>)
      /\ LET es == Echoes(OfRole("repository"))
             edge == SelectSeq(es, LAMBDA e : e.tag = "@edge")
         IN  /\ Len(edge) = (IF NeedsEdge(install) THEN 2 ELSE 0)
             /\ \A k \in 1..Len(es) : es[k].tag = "@edge" => k <= 2
             /\ Len(es) = Len(edge) + 2 * Len(repos)
      /\ Present("install")
      /\ IF user # ""
         THEN /\ Present("adduser") /\ Present("user")
              /\ LET cl == OfRole("adduser")[1].args
                 IN  /\ Len(cl) = 1 + Len(userDirs)
                     /\ cl[1] = [do |-> "adduser", arg |-> user]
                     /\ \A k \in 1..Len(userDirs) :
                          cl[k + 1] = [do |-> "mkdir-chown", arg |-> userDirs[k]]
              /\ OfRole("user")[1] = Instr("USER", "user", <<user>>)
         ELSE Absent("adduser") /\ Absent("user")
      /\ Len(OfRole("run")) = Len(run)
      /\ \A k \in 1..Len(dockerfile) : dockerfile[k].role = "run" => dockerfile[k].op = "RUN"
      /\ IF env # <<>> THEN Present("env") /\ OfRole("env")[1].op = "ENV" ELSE Absent("env")
      /\ IF expose # <<>> THEN Present("expose") /\ OfRole("expose")[1].op = "EXPOSE"
         ELSE Absent("expose")
      /\ IF cmd # <<>> THEN Present("cmd") /\ OfRole("cmd")[1] = Instr("CMD", "cmd", cmd)
         ELSE Absent("cmd")
      /\ Present("entrypoint")
      /\ OfRole("entrypoint")[1] = Instr("ENTRYPOINT", "entrypoint", <<Last(packages[1])>>)
      /\ Len(OfRole("copy")) = Len(packages)
      /\ \A k \in 1..Len(packages) : OfRole("copy")[k].args = <<Last(packages[k])>>

\* a descriptor with user creation, a RUN, ENV and EXPOSE all there
C4_Witness ==
    /\ Emitted
    /\ user # ""
    /\ env # <<>>
    /\ Len(OfRole("expose")) + Len(OfRole("run")) + Len(OfRole("cmd")) >= 1
    /\ Len(packages) >= 2

\* C5: the per-repository echo pairs and the RUN instructions of an emitted
\* descriptor are, in order and with repeats, the repository tokens and the run
\* payloads of the scanned lines.
C5_ReposAndRunsInScanOrder ==
    Emitted =>
      /\ LET es == SelectSeq(Echoes(OfRole("repository")), LAMBDA e : e.tag = "")
             want == Declared(log, "repository", FALSE, FALSE)
         IN  /\ Len(es) = 2 * Len(want)
             /\ \A k \in 1..Len(want) :
                  /\ es[2 * k - 1] = [tag |-> "", rel |-> want[k], comp |-> "main"]
                  /\ es[2 * k] = [tag |-> "", rel |-> want[k], comp |-> "community"]
      /\ LET rs == OfRole("run")
             want == Declared(log, "run", FALSE, TRUE)
         IN  /\ Len(rs) = Len(want)
             /\ \A k \in 1..Len(want) : rs[k].args = want[k]

\* a descriptor after two different run lines, or a repository line read twice
C5_Witness ==
    /\ Emitted
    /\ Len(log) >= 2
    /\ \/ /\ KindOf(log[1].text) = "run" /\ KindOf(log[2].text) = "run"
          /\ log[1].text # log[2].text
          /\ log[1].unit # log[2].unit
       \/ /\ KindOf(log[1].text) = "repository" /\ log[2].text = log[1].text

InstallList == OfRole("install")[1].args
BaseOfDescriptor == dockerfile[1].args[1]
Baseline == {"ca-certificates", "mailcap", "tini"}

\* the sorted-set instruction of a role lists a strictly ascending sequence of
\* exactly the tokens of `want`, and is absent when `want` is empty
ListsExactly(role, want) ==
    IF want = {} THEN Absent(role)
    ELSE /\ Present(role)
         /\ StrictlyAscending(OfRole(role)[1].args)
         /\ Range(OfRole(role)[1].args) = want

\* C6 as stated: the install, ENV and EXPOSE lists are strictly ascending, hold no
\* token twice, and hold exactly the declared tokens (--env defaults included) plus
\* the baseline for install.
C6_SortedSetsAsStated ==
    Emitted =>
      /\ ListsExactly("install", Baseline \cup Range(Declared(log, "install", FALSE, FALSE)))
      /\ ListsExactly("env", Range(envFlag) \cup Range(Declared(log, "env", TRUE, FALSE)))
      /\ ListsExactly("expose", Range(Declared(log, "expose", TRUE, FALSE)))

\* C6 amended: the same, and the install list also holds bind-tools when the base
\* image name starts with "alpine".
C6_SortedSets ==
    Emitted =>
      /\ ListsExactly("install",
                      Baseline \cup Range(Declared(log, "install", FALSE, FALSE))
                      \cup (IF HasPrefixAlpine(BaseOfDescriptor) THEN {"bind-tools"} ELSE {}))
      /\ ListsExactly("env", Range(envFlag) \cup Range(Declared(log, "env", TRUE, FALSE)))
      /\ ListsExactly("expose", Range(Declared(log, "expose", TRUE, FALSE)))

\* a descriptor whose env tokens came unordered and twice: --env A=1 and the entry
\* unit's "env B=2 A=1", next to an expose line that repeats a port
C6_Witness ==
    /\ Emitted
    /\ envFlag = <<"A=1">>
    /\ env = <<"A=1", "B=2", "A=1">>
    /\ expose = <<"8080", "80", "8080">>

\* C7: go build runs once per package in packages order; docker build runs only
\* after every package compiled; a failed go build is the last one, ends the run
\* with an error, and docker build never runs.
C7_CompileBeforeImage ==
    /\ Len(compiled) <= Len(packages)
    /\ \A k \in 1..Len(compiled) : compiled[k].pkg = packages[k]
    /\ docker # "none" =>
         /\ Len(compiled) = Len(packages)
         /\ \A k \in 1..Len(compiled) : compiled[k].ok
    /\ \A k \in 1..Len(compiled) :
         ~compiled[k].ok =>
           /\ k = Len(compiled)
           /\ docker = "none"
           /\ IF impl = "part_000"
              THEN pc = "done" /\ result = R("compile error")
              ELSE sh.exit = "1"

\* the first of two packages failed to compile
C7_Witness ==
    /\ Len(packages) >= 2
    /\ Len(compiled) = 1
    /\ ~compiled[1].ok

\* C8: with --dry-run set, a run of doBuild that merged its directives prints the
\* descriptor, runs neither go build nor docker build, and prints or writes nothing
\* else (the heading of the descriptor and the "ignoring" diagnostics of the scan
\* apart).  A later run of a written build.sh is not counted against doBuild.
C8_DryRunOnlyDescriptor ==
    (dryRun /\ sh = ShIdle) =>
      /\ (pc = "done" /\ result = R("nil")) => \E k \in 1..Len(stdout) : stdout[k].out = "Dockerfile"
      /\ compiled = <<>>
      /\ docker = "none"
      /\ \A k \in 1..Len(stdout) :
           stdout[k].out \in {"Dockerfile", "godockerize: Generated Dockerfile:", "ignoring"}
      /\ buildsh = <<>>
      /\ shFile = "none"

\* C9: whether a "//docker:" line ends the run as malformed (the invalid-comment
\* error, or the crash on the missing payload) is the same in the entry unit and in
\* a later unit, whatever has been accumulated.
EndsAsMalformed(st) == st \in {"invalid docker comment", "panic"}

C9_ParsingIgnoresPosition ==
    pc = "loop" =>
      \A text \in LineSet :
        IsDirective(text) =>
          ( EndsAsMalformed(Dispatch(text, TRUE, Cfg).status)
            <=> EndsAsMalformed(Dispatch(text, FALSE, Cfg).status) )

\* C10: when the write of the Dockerfile failed, nothing was compiled, docker build
\* did not run, no build.sh was written, and doBuild returns the write error.
C10_WriteFailureAborts ==
    dfFile = "failed" =>
      /\ compiled = <<>>
      /\ docker = "none"
      /\ shFile = "none"
      /\ pc = "done" => result = R("write error")
====
